---------------------------- MODULE Spec2Model ----------------------------
(***************************************************************************)
(* Model of the SSD1331 OLED display driver (crate ssd1331).               *)
(*                                                                         *)
(* The driver owns a 12288 byte frame buffer, a rotation, an SPI transport *)
(* and a data/command (DC) pin.  Every driver method is one action.  The   *)
(* calls a method makes on the pin, the transport, the reset pin and the   *)
(* delay are recorded, in order, in `trace` (the calls of the last         *)
(* method only); `device` holds what the controller has latched from the   *)
(* command bytes it received so far.                                       *)
(***************************************************************************)
EXTENDS Integers, Sequences, FiniteSets, TLC

VARIABLES
    display_rotation,  \* Ssd1331.display_rotation
    buffer,            \* Ssd1331.buffer, as the set of <<index, byte>> with byte # 0
    dc,                \* level of the DC pin: "low", "high" ("unset" before any write)
    device,            \* registers the controller latched: remap byte, column and row window
    build,             \* the target the crate was compiled for (width of usize, overflow checks)
    op,                \* the last method called and its arguments
    prev,              \* the method called before it, its arguments and what it returned
    trace,             \* pin / transport / delay calls made by the last method, in order
    result,            \* what the last method returned: "Ok", "Pin", "Comm", "Panic"
    nops               \* number of methods called so far

vars == <<nops, display_rotation, buffer, dc, device, build, op, prev, trace, result>>

-----------------------------------------------------------------------------
(* Program constants *)

DISPLAY_WIDTH == 96
DISPLAY_HEIGHT == 64
BUF_SIZE == 96 * 64 * 2
CMD_ARRAY_LEN == 11

Rotations == {"Rotate0", "Rotate90", "Rotate180", "Rotate270"}

(* Bounds of the model *)

\* driver methods called in one run
MaxOps == 2

\* commands encoded and sent in one run of the codec alone
MaxSends == 1

\* commands sent in one run over the samples of every variant
MaxVariantSends == 2

-----------------------------------------------------------------------------
(* Bit-level arithmetic on unsigned machine integers *)

RECURSIVE BitAnd(_, _)
BitAnd(a, b) ==
    IF a = 0 \/ b = 0 THEN 0
    ELSE (a % 2) * (b % 2) + 2 * BitAnd(a \div 2, b \div 2)

RECURSIVE BitOr(_, _)
BitOr(a, b) ==
    IF a = 0 THEN b
    ELSE IF b = 0 THEN a
    ELSE (IF a % 2 = 1 \/ b % 2 = 1 THEN 1 ELSE 0) + 2 * BitOr(a \div 2, b \div 2)

\* x << n on a w-bit unsigned integer: bits shifted out of the word are lost
Shl(x, n, w) == (x * (2 ^ n)) % (2 ^ w)

\* x >> n
Shr(x, n) == x \div (2 ^ n)

\* `b as u8` for a bool
BoolU8(b) == IF b THEN 1 ELSE 0

\* bit n of x
Bit(x, n) == (x \div (2 ^ n)) % 2

-----------------------------------------------------------------------------
(* command.rs: enum discriminants (`as u8`) *)

ColorMode == [CM256 |-> 0, CM65k |-> 1]
AddressIncrementMode == [Horizontal |-> 0, Vertical |-> 1]
VcomhLevel == [V044 |-> 0, V052 |-> 8, V061 |-> 16, V071 |-> 24, V083 |-> 31]

\* A Command value: the variant and its payload
Cmd(tag, args) == [tag |-> tag, args |-> args]

\* fills the fixed array of 11 u8 with zeroes after the bytes given
Pad(bytes) == bytes \o [i \in 1..(CMD_ARRAY_LEN - Len(bytes)) |-> 0]

\* raw16_to_ssd1331_accel: (a, b, c) = (blue << 1, green >> 5, red >> 10), each `as u8`
raw16_to_ssd1331_accel_red5(raw) ==
    LET RED_MASK == 63488
        GREEN_MASK == 2016
        BLUE_MASK == 31
    IN  << Shl(BitAnd(raw, BLUE_MASK), 1, 16) % 256,
           Shr(BitAnd(raw, GREEN_MASK), 5) % 256,
           Shr(BitAnd(raw, RED_MASK), 11) % 256 >>

raw16_to_ssd1331_accel(raw) ==
    LET RED_MASK == 63488
        GREEN_MASK == 2016
        BLUE_MASK == 31
    IN  << Shl(BitAnd(raw, BLUE_MASK), 1, 16) % 256,
           Shr(BitAnd(raw, GREEN_MASK), 5) % 256,
           Shr(BitAnd(raw, RED_MASK), 10) % 256 >>

\* the configuration byte of RemapAndColorDepth
RemapByteFlipped(hremap, vremap, cmode, addr_inc_mode) ==
    BitOr(32, BitOr(BitOr(BitOr(Shl(BoolU8(hremap), 4, 8), Shl(BoolU8(vremap), 1, 8)),
                          Shl(ColorMode[cmode], 6, 8)),
                    AddressIncrementMode[addr_inc_mode]))

RemapByteNoBase(hremap, vremap, cmode, addr_inc_mode) ==
    BitOr(BitOr(BitOr(Shl(BoolU8(vremap), 4, 8), Shl(BoolU8(hremap), 1, 8)),
                Shl(ColorMode[cmode], 6, 8)),
          AddressIncrementMode[addr_inc_mode])

RemapByte(hremap, vremap, cmode, addr_inc_mode) ==
    BitOr(32, BitOr(BitOr(BitOr(Shl(BoolU8(vremap), 4, 8), Shl(BoolU8(hremap), 1, 8)),
                          Shl(ColorMode[cmode], 6, 8)),
                    AddressIncrementMode[addr_inc_mode]))

\* the byte of DisplayClockDiv: ((0xF & fosc) << 4) | (0xF & div)
ClockDivByte(fosc, div) ==
    BitOr(Shl(BitAnd(15, fosc), 4, 8), BitAnd(15, div))

\* the byte of PreChargePeriod: ((0xF & phase2) << 4) | (0xF & phase1)
PreChargeByteSwapped(phase1, phase2) ==
    BitOr(Shl(BitAnd(15, phase1), 4, 8), BitAnd(15, phase2))

PreChargeByte(phase1, phase2) ==
    BitOr(Shl(BitAnd(15, phase2), 4, 8), BitAnd(15, phase1))

\* Command::send, the match: the fixed array of 11 u8 and the real length
Encode(cmd) ==
    LET a == cmd.args IN
    CASE cmd.tag = "Contrast" ->
            [data |-> Pad(<<129, a[1], 130, a[2], 131, a[3]>>), len |-> 6]
      [] cmd.tag = "AllOn" ->
            [data |-> Pad(<<IF a[1] THEN 165 ELSE 166>>), len |-> 1]
      [] cmd.tag = "Invert" ->
            [data |-> Pad(<<IF a[1] THEN 167 ELSE 164>>), len |-> 1]
      [] cmd.tag = "DisplayOn" ->
            [data |-> Pad(<<BitOr(174, BoolU8(a[1]))>>), len |-> 1]
      [] cmd.tag = "ColumnAddress" ->
            [data |-> Pad(<<21, a[1], a[2]>>), len |-> 3]
      [] cmd.tag = "RowAddress" ->
            [data |-> Pad(<<117, a[1], a[2]>>), len |-> 3]
      [] cmd.tag = "StartLine" ->
            [data |-> Pad(<<161, BitAnd(63, a[1])>>), len |-> 2]
      [] cmd.tag = "RemapAndColorDepth" ->
            [data |-> Pad(<<160, RemapByte(a[1], a[2], a[3], a[4])>>), len |-> 2]
      [] cmd.tag = "Multiplex" ->
            [data |-> Pad(<<168, a[1]>>), len |-> 2]
      [] cmd.tag = "ReverseComDir" ->
            [data |-> Pad(<<BitOr(192, Shl(BoolU8(a[1]), 3, 8))>>), len |-> 1]
      [] cmd.tag = "DisplayOffset" ->
            [data |-> Pad(<<162, a[1]>>), len |-> 2]
      [] cmd.tag = "ComPinConfig" ->
            [data |-> Pad(<<218, BitOr(BitOr(2, Shl(BoolU8(a[1]), 4, 8)),
                                       Shl(BoolU8(a[2]), 5, 8))>>), len |-> 2]
      [] cmd.tag = "DisplayClockDiv" ->
            [data |-> Pad(<<179, ClockDivByte(a[1], a[2])>>), len |-> 2]
      [] cmd.tag = "PreChargePeriod" ->
            [data |-> Pad(<<62, PreChargeByte(a[1], a[2])>>), len |-> 2]
      [] cmd.tag = "VcomhDeselect" ->
            [data |-> Pad(<<190, Shl(VcomhLevel[a[1]], 1, 8)>>), len |-> 2]
      [] cmd.tag = "Noop" ->
            [data |-> Pad(<<227>>), len |-> 1]
      [] cmd.tag = "DrawLine" ->
            LET c == raw16_to_ssd1331_accel(a[5]) IN
            [data |-> Pad(<<33, a[1], a[2], a[3], a[4], c[3], c[2], c[1]>>), len |-> 8]
      [] cmd.tag = "DrawRect" ->
            LET l == raw16_to_ssd1331_accel(a[5])
                f == raw16_to_ssd1331_accel(a[6]) IN
            [data |-> Pad(<<34, a[1], a[2], a[3], a[4],
                            l[3], l[2], l[1], f[3], f[2], f[1]>>), len |-> 11]
      [] cmd.tag = "EnableFill" ->
            [data |-> Pad(<<38, IF a[1] THEN 1 ELSE 0>>), len |-> 2]

\* &data[0..len]: the bytes handed to the transport
WireWholeArray(cmd) == Encode(cmd).data

Wire(cmd) == SubSeq(Encode(cmd).data, 1, Encode(cmd).len)

-----------------------------------------------------------------------------
(* Calls a method makes on its collaborators.  A step is one call; every    *)
(* step has the same fields: kind "dc" (DC pin set_low / set_high), "spi"   *)
(* (transport write), "rst" (reset pin) or "delay"; awaited tells whether   *)
(* the method awaits the call, which is where an async method can suspend.  *)

DcStep(level) ==
    [kind |-> "dc", level |-> level, src |-> "", bytes |-> <<>>, block |-> {}, n |-> 0,
     awaited |-> FALSE]

\* spi.write(&data[0..len])
SpiCommandStep(bytes) ==
    [kind |-> "spi", level |-> "", src |-> "command", bytes |-> bytes, block |-> {},
     n |-> Len(bytes), awaited |-> FALSE]

\* spi.write(&self.buffer)
SpiBufferStep(buf) ==
    [kind |-> "spi", level |-> "", src |-> "buffer", bytes |-> <<>>, block |-> buf,
     n |-> BUF_SIZE, awaited |-> FALSE]

RstStep(level) ==
    [kind |-> "rst", level |-> level, src |-> "", bytes |-> <<>>, block |-> {}, n |-> 0,
     awaited |-> FALSE]

\* delay.delay_ms(ms)
DelayStep(ms) ==
    [kind |-> "delay", level |-> "", src |-> "", bytes |-> <<>>, block |-> {}, n |-> ms,
     awaited |-> FALSE]

\* `.await` on a call: the method can suspend until the call's last step completes
Await(steps) == [steps EXCEPT ![Len(steps)].awaited = TRUE]

\* Command::send after the match: dc.set_low()?, then spi.write(&data[0..len])
send_write_first(cmd) == << SpiCommandStep(Wire(cmd)), DcStep("low") >>

send(cmd) == << DcStep("low"), SpiCommandStep(Wire(cmd)) >>

\* Command::send_async: same bytes and DC handling as send, awaited
send_async(cmd) == << DcStep("low"), SpiCommandStep(Wire(cmd)) >>

\* the steps that can return an error (delay_ms returns nothing)
Failable(steps) == {i \in 1..Len(steps) : steps[i].kind # "delay"}

\* The `?` operator: the calls are made in order; the call numbered failAt
\* (0 = none) returns Err and ends the method, the calls after it are not made.
\* A failed set_low / set_high leaves the pin where it was.
ExecNoAbort(steps, failAt, i, level) ==
    [j \in 1..Len(steps) |->
        LET s == steps[j]
            before == {k \in 1..(j - 1) : steps[k].kind = "dc" /\ k # failAt}
            last == CHOOSE k \in before : \A m \in before : m <= k
        IN  [kind |-> s.kind, level |-> s.level, src |-> s.src, bytes |-> s.bytes,
             block |-> s.block, n |-> s.n, awaited |-> s.awaited, ok |-> (j # failAt),
             dc |-> IF before = {} THEN level ELSE steps[last].level]]

RECURSIVE Exec(_, _, _, _)
Exec(steps, failAt, i, level) ==
    IF i > Len(steps) \/ (failAt # 0 /\ i > failAt) THEN <<>>
    ELSE LET s == steps[i]
             ok == (i # failAt)
             ev == [kind |-> s.kind, level |-> s.level, src |-> s.src, bytes |-> s.bytes,
                    block |-> s.block, n |-> s.n, awaited |-> s.awaited, ok |-> ok,
                    dc |-> level]
             next == IF s.kind = "dc" /\ ok THEN s.level ELSE level
         IN  <<ev>> \o Exec(steps, failAt, i + 1, next)

\* map_err(Error::Pin) on pin calls, map_err(Error::Comm) on transport writes
ResultOf(steps, failAt) ==
    IF failAt = 0 THEN "Ok"
    ELSE IF steps[failAt].kind \in {"dc", "rst"} THEN "Pin" ELSE "Comm"

\* level of the DC pin after the calls of tr
RECURSIVE DcAfter(_, _)
DcAfter(tr, level) ==
    IF tr = <<>> THEN level
    ELSE DcAfter(Tail(tr),
                 IF Head(tr).kind = "dc" /\ Head(tr).ok THEN Head(tr).level ELSE level)

\* what the controller latches from a write it received with DC low
Latch(dev, ev) ==
    IF ev.kind = "spi" /\ ev.ok /\ ev.dc = "low" /\ ev.src = "command"
    THEN CASE ev.bytes[1] = 160 -> [dev EXCEPT !.remap = ev.bytes[2]]
           [] ev.bytes[1] = 21  -> [dev EXCEPT !.col = <<ev.bytes[2], ev.bytes[3]>>]
           [] ev.bytes[1] = 117 -> [dev EXCEPT !.row = <<ev.bytes[2], ev.bytes[3]>>]
           [] OTHER -> dev
    ELSE dev

RECURSIVE DeviceAfter(_, _)
DeviceAfter(dev, tr) ==
    IF tr = <<>> THEN dev ELSE DeviceAfter(Latch(dev, Head(tr)), Tail(tr))

\* one method call that talks to the pins and the transport
Call(name, args, steps, failAt) ==
    /\ result # "Panic"
    /\ failAt \in {0} \cup Failable(steps)
    /\ trace' = Exec(steps, failAt, 1, dc)
    /\ result' = ResultOf(steps, failAt)
    /\ dc' = DcAfter(trace', dc)
    /\ device' = DeviceAfter(device, trace')
    /\ op' = [name |-> name, args |-> args]
    /\ prev' = [name |-> op.name, args |-> op.args, result |-> result]
    /\ nops' = nops + 1

-----------------------------------------------------------------------------
(* Machine integers of set_pixel.  A u32 or usize value is the pair          *)
(* <<hi, lo>> of its value divided by 2^16 and its low 16 bits.              *)

W16 == 65536

U32(n) == << n \div W16, n % W16 >>

\* p >= k for a constant 0 < k < 2^16
GeConst(p, k) == p[1] > 0 \/ p[2] >= k

\* The targets the crate is compiled for: usize of 32 bits (the Cortex-M and
\* nRF boards of examples/) or of 64 bits; with overflow checks (debug
\* profile) an overflowing usize operation panics, without them it wraps.
Builds ==
    { [usize_bits |-> 64, overflow_checks |-> FALSE],
      [usize_bits |-> 32, overflow_checks |-> FALSE],
      [usize_bits |-> 32, overflow_checks |-> TRUE] }

\* the result of a usize operation whose exact value is hi * 2^16 + lo:
\* the value kept in the word and whether it overflowed.  With 64 bits no
\* operation on values derived from two u32 by * 96, + and * 2 overflows.
Usize(hi, lo, bld) ==
    LET h == hi + (lo \div W16) IN
    [v  |-> << IF bld.usize_bits = 32 THEN h % W16 ELSE h, lo % W16 >>,
     of |-> bld.usize_bits = 32 /\ h >= W16]

usize_mul(a, k, bld) == Usize(a[1] * k, a[2] * k, bld)

usize_add(a, b, bld) == Usize(a[1] + b[1], a[2] + b[2], bld)

\* dimensions(): (width, height) for the rotation
dimensions_of_unrotated(rot) ==
    << DISPLAY_WIDTH, DISPLAY_HEIGHT >>

dimensions_of(rot) ==
    IF rot \in {"Rotate0", "Rotate180"}
    THEN << DISPLAY_WIDTH, DISPLAY_HEIGHT >>
    ELSE << DISPLAY_HEIGHT, DISPLAY_WIDTH >>

\* set_pixel, up to the write: the early returns, the index arithmetic in
\* usize and the guard idx >= buffer.len() - 1.
\* kind "return": the call returned without writing; "write": it writes at
\* idx and idx + 1; "panic": an arithmetic overflow check failed.
pixel_index_stride_swapped(rot, x, y, bld) ==
    LET landscape == rot \in {"Rotate0", "Rotate180"}
        early == IF landscape THEN GeConst(x, DISPLAY_WIDTH) ELSE GeConst(y, DISPLAY_WIDTH)
        m == usize_mul(y, IF landscape THEN DISPLAY_HEIGHT ELSE DISPLAY_WIDTH, bld)
        s == usize_add(m.v, x, bld)
        d == usize_mul(s.v, 2, bld)
    IN  IF early THEN [kind |-> "return", idx |-> 0]
        ELSE IF bld.overflow_checks /\ (m.of \/ s.of \/ d.of)
                 THEN [kind |-> "panic", idx |-> 0]
        ELSE IF GeConst(d.v, BUF_SIZE - 1) THEN [kind |-> "return", idx |-> 0]
        ELSE [kind |-> "write", idx |-> d.v[2]]

pixel_index_drops_last(rot, x, y, bld) ==
    LET landscape == rot \in {"Rotate0", "Rotate180"}
        early == IF landscape THEN GeConst(x, DISPLAY_WIDTH) ELSE GeConst(y, DISPLAY_WIDTH)
        m == usize_mul(y, IF landscape THEN DISPLAY_WIDTH ELSE DISPLAY_HEIGHT, bld)
        s == usize_add(m.v, x, bld)
        d == usize_mul(s.v, 2, bld)
    IN  IF early THEN [kind |-> "return", idx |-> 0]
        ELSE IF bld.overflow_checks /\ (m.of \/ s.of \/ d.of)
                 THEN [kind |-> "panic", idx |-> 0]
        ELSE IF GeConst(d.v, BUF_SIZE - 2) THEN [kind |-> "return", idx |-> 0]
        ELSE [kind |-> "write", idx |-> d.v[2]]

pixel_index_unguarded(rot, x, y, bld) ==
    LET landscape == rot \in {"Rotate0", "Rotate180"}
        early == IF landscape THEN GeConst(x, DISPLAY_WIDTH) ELSE GeConst(y, DISPLAY_WIDTH)
        m == usize_mul(y, IF landscape THEN DISPLAY_WIDTH ELSE DISPLAY_HEIGHT, bld)
        s == usize_add(m.v, x, bld)
        d == usize_mul(s.v, 2, bld)
    IN  IF early THEN [kind |-> "return", idx |-> 0]
        ELSE IF bld.overflow_checks /\ (m.of \/ s.of \/ d.of)
                 THEN [kind |-> "panic", idx |-> 0]
        ELSE IF GeConst(d.v, W16) THEN [kind |-> "return", idx |-> 0]
        ELSE [kind |-> "write", idx |-> d.v[2]]

pixel_index(rot, x, y, bld) ==
    LET landscape == rot \in {"Rotate0", "Rotate180"}
        early == IF landscape THEN GeConst(x, DISPLAY_WIDTH) ELSE GeConst(y, DISPLAY_WIDTH)
        m == usize_mul(y, IF landscape THEN DISPLAY_WIDTH ELSE DISPLAY_HEIGHT, bld)
        s == usize_add(m.v, x, bld)
        d == usize_mul(s.v, 2, bld)
    IN  IF early THEN [kind |-> "return", idx |-> 0]
        ELSE IF bld.overflow_checks /\ (m.of \/ s.of \/ d.of)
                 THEN [kind |-> "panic", idx |-> 0]
        ELSE IF GeConst(d.v, BUF_SIZE - 1) THEN [kind |-> "return", idx |-> 0]
        ELSE [kind |-> "write", idx |-> d.v[2]]

\* `pos.x as u32`, `pos.y as u32` of an i32 not below -2^16
as_u32(i) == IF i >= 0 THEN U32(i) ELSE << W16 - 1, W16 + i >>

\* self.bounding_box().contains(pos): the rectangle at (0, 0) of size
\* dimensions()
bounding_box_contains_unrotated(rot, pos) ==
    /\ pos[1] >= 0 /\ pos[1] < DISPLAY_WIDTH
    /\ pos[2] >= 0 /\ pos[2] < DISPLAY_HEIGHT

bounding_box_contains(rot, pos) ==
    /\ pos[1] >= 0 /\ pos[1] < dimensions_of(rot)[1]
    /\ pos[2] >= 0 /\ pos[2] < dimensions_of(rot)[2]

\* byte i of a buffer held as its non-zero entries
BufAt(buf, i) ==
    IF \E p \in buf : p[1] = i THEN (CHOOSE p \in buf : p[1] = i)[2] ELSE 0

\* buf with buf[i] = b
BufSet(buf, i, b) ==
    {p \in buf : p[1] # i} \cup (IF b # 0 THEN {<<i, b>>} ELSE {})

\* set_pixel, the write: high byte at idx, low byte at idx + 1
store_pixel_low_first(buf, idx, value) ==
    LET low == BitAnd(value, 255)
        high == Shr(BitAnd(value, 65280), 8)
    IN  BufSet(BufSet(buf, idx, low), idx + 1, high)

store_pixel(buf, idx, value) ==
    LET low == BitAnd(value, 255)
        high == Shr(BitAnd(value, 65280), 8)
    IN  BufSet(BufSet(buf, idx, high), idx + 1, low)

\* draw_iter: the pixels inside the bounding box, given to set_pixel in
\* iteration order; panic tells that a set_pixel panicked
RECURSIVE draw_pixels(_, _, _, _)
draw_pixels(buf, rot, pixels, bld) ==
    IF pixels = <<>> THEN [buffer |-> buf, panic |-> FALSE]
    ELSE LET px == Head(pixels)
             p == pixel_index(rot, as_u32(px[1]), as_u32(px[2]), bld)
         IN  IF ~bounding_box_contains(rot, <<px[1], px[2]>>)
                 THEN draw_pixels(buf, rot, Tail(pixels), bld)
             ELSE IF p.kind = "panic" THEN [buffer |-> buf, panic |-> TRUE]
             ELSE draw_pixels(IF p.kind = "write"
                                  THEN store_pixel(buf, p.idx, px[3]) ELSE buf,
                              rot, Tail(pixels), bld)

-----------------------------------------------------------------------------
(* display.rs: the command lists of the methods *)

\* set_rotation, the match: the remap command of a rotation
rotation_command_90_270_swapped(rot) ==
    CASE rot = "Rotate0"   -> Cmd("RemapAndColorDepth", <<FALSE, FALSE, "CM65k", "Horizontal">>)
      [] rot = "Rotate90"  -> Cmd("RemapAndColorDepth", <<FALSE, TRUE, "CM65k", "Vertical">>)
      [] rot = "Rotate180" -> Cmd("RemapAndColorDepth", <<TRUE, TRUE, "CM65k", "Horizontal">>)
      [] rot = "Rotate270" -> Cmd("RemapAndColorDepth", <<TRUE, FALSE, "CM65k", "Vertical">>)

rotation_command(rot) ==
    CASE rot = "Rotate0"   -> Cmd("RemapAndColorDepth", <<FALSE, FALSE, "CM65k", "Horizontal">>)
      [] rot = "Rotate90"  -> Cmd("RemapAndColorDepth", <<TRUE, FALSE, "CM65k", "Vertical">>)
      [] rot = "Rotate180" -> Cmd("RemapAndColorDepth", <<TRUE, TRUE, "CM65k", "Horizontal">>)
      [] rot = "Rotate270" -> Cmd("RemapAndColorDepth", <<FALSE, TRUE, "CM65k", "Vertical">>)

set_rotation_steps(rot) == send(rotation_command(rot))

\* init: the twelve sends, in program order
init_steps_offset_first(rot) ==
       send(Cmd("DisplayOn", <<FALSE>>))
    \o send(Cmd("DisplayClockDiv", <<15, 0>>))
    \o send(Cmd("Multiplex", <<DISPLAY_HEIGHT - 1>>))
    \o send(Cmd("DisplayOffset", <<0>>))
    \o send(Cmd("StartLine", <<0>>))
    \o set_rotation_steps(rot)
    \o send(Cmd("Contrast", <<145, 80, 125>>))
    \o send(Cmd("PreChargePeriod", <<1, 15>>))
    \o send(Cmd("VcomhDeselect", <<"V071">>))
    \o send(Cmd("AllOn", <<FALSE>>))
    \o send(Cmd("Invert", <<FALSE>>))
    \o send(Cmd("DisplayOn", <<TRUE>>))

init_steps(rot) ==
       send(Cmd("DisplayOn", <<FALSE>>))
    \o send(Cmd("DisplayClockDiv", <<15, 0>>))
    \o send(Cmd("Multiplex", <<DISPLAY_HEIGHT - 1>>))
    \o send(Cmd("StartLine", <<0>>))
    \o send(Cmd("DisplayOffset", <<0>>))
    \o set_rotation_steps(rot)
    \o send(Cmd("Contrast", <<145, 80, 125>>))
    \o send(Cmd("PreChargePeriod", <<1, 15>>))
    \o send(Cmd("VcomhDeselect", <<"V071">>))
    \o send(Cmd("AllOn", <<FALSE>>))
    \o send(Cmd("Invert", <<FALSE>>))
    \o send(Cmd("DisplayOn", <<TRUE>>))

\* Properties::init_column_mode: the twelve sends, in program order; its
\* set_rotation sends the same command as Ssd1331::set_rotation
init_column_mode_steps(rot) ==
       send(Cmd("DisplayOn", <<FALSE>>))
    \o send(Cmd("DisplayClockDiv", <<8, 0>>))
    \o send(Cmd("Multiplex", <<64 - 1>>))
    \o send(Cmd("DisplayOffset", <<0>>))
    \o send(Cmd("StartLine", <<0>>))
    \o set_rotation_steps(rot)
    \o send(Cmd("Contrast", <<145, 80, 125>>))
    \o send(Cmd("PreChargePeriod", <<1, 15>>))
    \o send(Cmd("VcomhDeselect", <<"V071">>))
    \o send(Cmd("AllOn", <<FALSE>>))
    \o send(Cmd("Invert", <<FALSE>>))
    \o send(Cmd("DisplayOn", <<TRUE>>))

\* set_draw_area(start, end): ColumnAddress(start.0, end.0), RowAddress(start.1, end.1)
set_draw_area_steps_end_exclusive(start, end) ==
       send(Cmd("ColumnAddress", <<start[1], (end[1] + 255) % 256>>))
    \o send(Cmd("RowAddress", <<start[2], (end[2] + 255) % 256>>))

set_draw_area_steps(start, end) ==
       send(Cmd("ColumnAddress", <<start[1], end[1]>>))
    \o send(Cmd("RowAddress", <<start[2], end[2]>>))

\* flush: set_draw_area to the whole display, dc.set_high, spi.write(&self.buffer)
flush_steps_dc_unchanged(buf) ==
       set_draw_area_steps(<<0, 0>>, <<DISPLAY_WIDTH - 1, DISPLAY_HEIGHT - 1>>)
    \o << SpiBufferStep(buf) >>

flush_steps_no_window(buf) ==
    << DcStep("high"), SpiBufferStep(buf) >>

flush_steps(buf) ==
       set_draw_area_steps(<<0, 0>>, <<DISPLAY_WIDTH - 1, DISPLAY_HEIGHT - 1>>)
    \o << DcStep("high"), SpiBufferStep(buf) >>

\* flush_async: the two window commands by send_async, dc.set_high, the awaited write
flush_async_steps_one_await(buf) ==
       send_async(Cmd("ColumnAddress", <<0, DISPLAY_WIDTH - 1>>))
    \o send_async(Cmd("RowAddress", <<0, DISPLAY_HEIGHT - 1>>))
    \o << DcStep("high") >>
    \o Await(<< SpiBufferStep(buf) >>)

flush_async_steps_rows_first(buf) ==
       Await(send_async(Cmd("RowAddress", <<0, DISPLAY_HEIGHT - 1>>)))
    \o Await(send_async(Cmd("ColumnAddress", <<0, DISPLAY_WIDTH - 1>>)))
    \o << DcStep("high") >>
    \o Await(<< SpiBufferStep(buf) >>)

flush_async_steps(buf) ==
       Await(send_async(Cmd("ColumnAddress", <<0, DISPLAY_WIDTH - 1>>)))
    \o Await(send_async(Cmd("RowAddress", <<0, DISPLAY_HEIGHT - 1>>)))
    \o << DcStep("high") >>
    \o Await(<< SpiBufferStep(buf) >>)

\* reset(rst, delay)
reset_steps_no_delay ==
    << RstStep("high"), RstStep("low"), RstStep("high") >>

reset_steps ==
    << RstStep("high"), DelayStep(1), RstStep("low"), DelayStep(1), RstStep("high") >>

\* GraphicsMode::reset(rst, delay): the pin calls return nothing
graphics_mode_reset_steps ==
    << RstStep("high"), DelayStep(1), RstStep("low"), DelayStep(10), RstStep("high") >>

-----------------------------------------------------------------------------
(* Inputs of the model *)

\* colour values (u16): pure red 0xF800, and 0x12AB
Colours == {63488, 4779}

\* u32 coordinates: the edges of both orientations, and values whose index
\* arithmetic exceeds 32 bits:
\*   44739243 * 96 = 2^32 + 32, 22369622 * 96 * 2 = 2^32 + 128, 2^31 * 2 = 2^32
PixelXs == {U32(0), U32(63), U32(64), U32(95), U32(96), <<32768, 0>>}
PixelYs == {U32(0), U32(63), U32(64), U32(95), U32(96), U32(22369622), U32(44739243)}

\* Pixel(Point(x, y), colour) of draw_iter, i32 coordinates: the origin in
\* two colours, negative coordinates, the first column and row outside the
\* rotated and the unrotated box, and the last pixel
DrawPixels == { <<0, 0, 63488>>, <<0, 0, 4779>>, <<-1, 0, 63488>>, <<5, -1, 4779>>,
                <<64, 0, 4779>>, <<0, 64, 63488>>, <<95, 63, 4779>> }

\* the iterators given to draw_iter: one or two pixels
DrawIters == { <<p>> : p \in DrawPixels } \cup { <<p, q>> : p \in DrawPixels, q \in DrawPixels }

\* coordinates and colours used between the bus operations
DriverXs == {U32(0), U32(95)}
DriverYs == {U32(0), U32(63)}
DriverColours == {63488}

\* u8 payloads of the two-nibble commands: 0x00, 0x01, 0x0F, 0x10, 0x5A, 0xA5, 0xF0, 0xFF
U8s == {0, 1, 15, 16, 90, 165, 240, 255}

\* u16 colours of the accelerated drawing commands: black, the blue, green and
\* red fields alone (0x001F, 0x07E0, 0xF800), white and 0x12AB
AccelColours == {0, 31, 2016, 63488, 65535, 4779}

\* (c1, r1, c2, r2) of the accelerated drawing commands
AccelCoords == { <<1, 2, 3, 4>>, <<95, 63, 0, 255>> }

\* two values of every Command variant (one of Noop), with different payloads
CommandSamples ==
    << Cmd("Contrast", <<145, 80, 125>>),          Cmd("Contrast", <<0, 255, 1>>),
       Cmd("AllOn", <<FALSE>>),                    Cmd("AllOn", <<TRUE>>),
       Cmd("Invert", <<FALSE>>),                   Cmd("Invert", <<TRUE>>),
       Cmd("DisplayOn", <<FALSE>>),                Cmd("DisplayOn", <<TRUE>>),
       Cmd("ColumnAddress", <<0, 95>>),            Cmd("ColumnAddress", <<200, 5>>),
       Cmd("RowAddress", <<0, 63>>),               Cmd("RowAddress", <<255, 0>>),
       Cmd("StartLine", <<0>>),                    Cmd("StartLine", <<255>>),
       Cmd("RemapAndColorDepth", <<FALSE, FALSE, "CM65k", "Horizontal">>),
       Cmd("RemapAndColorDepth", <<TRUE, TRUE, "CM256", "Vertical">>),
       Cmd("Multiplex", <<63>>),                   Cmd("Multiplex", <<15>>),
       Cmd("ReverseComDir", <<FALSE>>),            Cmd("ReverseComDir", <<TRUE>>),
       Cmd("DisplayOffset", <<0>>),                Cmd("DisplayOffset", <<255>>),
       Cmd("ComPinConfig", <<FALSE, FALSE>>),      Cmd("ComPinConfig", <<TRUE, TRUE>>),
       Cmd("DisplayClockDiv", <<15, 0>>),          Cmd("DisplayClockDiv", <<0, 255>>),
       Cmd("PreChargePeriod", <<1, 15>>),          Cmd("PreChargePeriod", <<255, 16>>),
       Cmd("VcomhDeselect", <<"V071">>),           Cmd("VcomhDeselect", <<"V083">>),
       Cmd("Noop", <<>>),
       Cmd("DrawLine", <<1, 2, 3, 4, 63488>>),     Cmd("DrawLine", <<95, 63, 0, 255, 4779>>),
       Cmd("DrawRect", <<1, 2, 3, 4, 63488, 31>>), Cmd("DrawRect", <<95, 63, 0, 255, 4779, 65535>>),
       Cmd("EnableFill", <<FALSE>>),               Cmd("EnableFill", <<TRUE>>) >>

\* (start, end) corners given to set_draw_area, as (u8, u8) pairs
Windows == { << <<0, 0>>, <<95, 63>> >>,
             << <<10, 20>>, <<30, 40>> >>,
             << <<200, 255>>, <<5, 0>> >> }

-----------------------------------------------------------------------------
(* The driver *)

\* Ssd1331::new(spi, dc, display_rotation): no pin or transport call
Init ==
    /\ display_rotation \in Rotations
    /\ buffer = {}
    /\ dc = "unset"
    /\ device = [remap |-> -1, col |-> <<-1, -1>>, row |-> <<-1, -1>>]
    /\ build \in Builds
    /\ op = [name |-> "new", args |-> <<display_rotation>>]
    /\ prev = [name |-> "", args |-> <<>>, result |-> ""]
    /\ trace = <<>>
    /\ result = "Ok"
    /\ nops = 0

\* Ssd1331::dimensions(&self)
dimensions == dimensions_of(display_rotation)

\* Ssd1331::rotation(&self)
rotation == display_rotation

\* Ssd1331::init
init_default_rotation ==
    \E failAt \in 0..24 :
        /\ nops < MaxOps
        /\ Call("init", <<>>, init_steps("Rotate0"), failAt)
        /\ display_rotation' = IF failAt \in 1..10 THEN display_rotation ELSE "Rotate0"
        /\ UNCHANGED <<buffer, build>>

init_resets_rotation ==
    \E failAt \in 0..24 :
        /\ nops < MaxOps
        /\ Call("init", <<>>, init_steps(display_rotation), failAt)
        /\ display_rotation' = IF failAt = 0 THEN display_rotation ELSE "Rotate0"
        /\ UNCHANGED <<buffer, build>>

init ==
    \E failAt \in 0..24 :
        /\ nops < MaxOps
        /\ Call("init", <<>>, init_steps(display_rotation), failAt)
        /\ display_rotation' = display_rotation
        /\ UNCHANGED <<buffer, build>>

\* Ssd1331::set_rotation(rot): the rotation is stored before the command is sent
set_rotation(rot) ==
    \E failAt \in 0..2 :
        /\ nops < MaxOps
        /\ Call("set_rotation", <<rot>>, set_rotation_steps(rot), failAt)
        /\ display_rotation' = rot
        /\ UNCHANGED <<buffer, build>>

\* Ssd1331::set_draw_area(start, end)
set_draw_area(start, end) ==
    \E failAt \in 0..4 :
        /\ nops < MaxOps
        /\ Call("set_draw_area", <<start, end>>, set_draw_area_steps(start, end), failAt)
        /\ UNCHANGED <<display_rotation, buffer, build>>

\* Ssd1331::flush
flush_takes_buffer ==
    \E failAt \in 0..6 :
        /\ nops < MaxOps
        /\ Call("flush", <<>>, flush_steps(buffer), failAt)
        /\ buffer' = {}
        /\ UNCHANGED <<display_rotation, build>>

flush ==
    \E failAt \in 0..6 :
        /\ nops < MaxOps
        /\ Call("flush", <<>>, flush_steps(buffer), failAt)
        /\ UNCHANGED <<display_rotation, buffer, build>>

\* Ssd1331::flush_async
flush_async ==
    \E failAt \in 0..6 :
        /\ nops < MaxOps
        /\ Call("flush_async", <<>>, flush_async_steps(buffer), failAt)
        /\ UNCHANGED <<display_rotation, buffer, build>>

\* Ssd1331::reset(rst, delay)
reset ==
    \E failAt \in 0..5 :
        /\ nops < MaxOps
        /\ Call("reset", <<>>, reset_steps, failAt)
        /\ UNCHANGED <<display_rotation, buffer, build>>

\* GraphicsMode::reset(rst, delay)
graphics_mode_reset ==
    /\ nops < MaxOps
    /\ Call("graphics_mode_reset", <<>>, graphics_mode_reset_steps, 0)
    /\ UNCHANGED <<display_rotation, buffer, build>>

\* Ssd1331::turn_on
turn_on ==
    \E failAt \in 0..2 :
        /\ nops < MaxOps
        /\ Call("turn_on", <<>>, send(Cmd("DisplayOn", <<TRUE>>)), failAt)
        /\ UNCHANGED <<display_rotation, buffer, build>>

\* Ssd1331::turn_off
turn_off ==
    \E failAt \in 0..2 :
        /\ nops < MaxOps
        /\ Call("turn_off", <<>>, send(Cmd("DisplayOn", <<FALSE>>)), failAt)
        /\ UNCHANGED <<display_rotation, buffer, build>>

\* Ssd1331::clear
clear_keeps_buffer ==
    /\ nops < MaxOps
    /\ result # "Panic"
    /\ buffer' = buffer
    /\ op' = [name |-> "clear", args |-> <<>>]
    /\ prev' = [name |-> op.name, args |-> op.args, result |-> result]
    /\ trace' = <<>>
    /\ result' = "Ok"
    /\ nops' = nops + 1
    /\ UNCHANGED <<display_rotation, dc, device, build>>

clear ==
    /\ nops < MaxOps
    /\ result # "Panic"
    /\ buffer' = {}
    /\ op' = [name |-> "clear", args |-> <<>>]
    /\ prev' = [name |-> op.name, args |-> op.args, result |-> result]
    /\ trace' = <<>>
    /\ result' = "Ok"
    /\ nops' = nops + 1
    /\ UNCHANGED <<display_rotation, dc, device, build>>

\* Ssd1331::set_pixel(x, y, value)
set_pixel(x, y, value) ==
    LET p == pixel_index(display_rotation, x, y, build) IN
    /\ nops < MaxOps
    /\ result # "Panic"
    /\ buffer' = IF p.kind = "write" THEN store_pixel(buffer, p.idx, value) ELSE buffer
    /\ op' = [name |-> "set_pixel", args |-> <<x, y, value>>]
    /\ prev' = [name |-> op.name, args |-> op.args, result |-> result]
    /\ trace' = <<>>
    /\ result' = IF p.kind = "panic" THEN "Panic" ELSE "Ok"
    /\ nops' = nops + 1
    /\ UNCHANGED <<display_rotation, dc, device, build>>

\* DrawTarget::draw_iter(pixels)
draw_iter(pixels) ==
    LET r == draw_pixels(buffer, display_rotation, pixels, build) IN
    /\ nops < MaxOps
    /\ result # "Panic"
    /\ buffer' = r.buffer
    /\ op' = [name |-> "draw_iter", args |-> <<pixels>>]
    /\ prev' = [name |-> op.name, args |-> op.args, result |-> result]
    /\ trace' = <<>>
    /\ result' = IF r.panic THEN "Panic" ELSE "Ok"
    /\ nops' = nops + 1
    /\ UNCHANGED <<display_rotation, dc, device, build>>

\* Command::send(spi, dc) on the driver's transport and pin
command_send(cmd) ==
    \E failAt \in 0..2 :
        /\ nops < MaxSends
        /\ Call("send", cmd, send(cmd), failAt)
        /\ UNCHANGED <<display_rotation, buffer, build>>

Next ==
    \/ init
    \/ \E rot \in Rotations : set_rotation(rot)
    \/ \E w \in Windows : set_draw_area(w[1], w[2])
    \/ flush
    \/ flush_async
    \/ reset
    \/ graphics_mode_reset
    \/ turn_on
    \/ turn_off
    \/ clear
    \/ \E x \in DriverXs, y \in DriverYs, v \in DriverColours : set_pixel(x, y, v)

Spec == Init /\ [][Next]_vars

\* the frame buffer alone: pixel writes and clear over the full coordinate samples
NextPixel ==
    \/ \E x \in PixelXs, y \in PixelYs, v \in Colours : set_pixel(x, y, v)
    \/ clear

SpecPixel == Init /\ [][NextPixel]_vars

\* embedded-graphics drawing: draw_iter and clear
NextDraw ==
    \/ \E pixels \in DrawIters : draw_iter(pixels)
    \/ clear

SpecDraw == Init /\ [][NextDraw]_vars

\* the command codec alone: one command encoded and sent
NextCodec ==
    \/ \E h \in BOOLEAN, v \in BOOLEAN, cm \in {"CM256", "CM65k"},
          inc \in {"Horizontal", "Vertical"} :
            command_send(Cmd("RemapAndColorDepth", <<h, v, cm, inc>>))
    \/ \E fosc \in U8s, div \in U8s : command_send(Cmd("DisplayClockDiv", <<fosc, div>>))
    \/ \E p1 \in U8s, p2 \in U8s : command_send(Cmd("PreChargePeriod", <<p1, p2>>))

SpecCodec == Init /\ [][NextCodec]_vars

\* Command::send(spi, dc), of the values of CommandSamples
command_send_sample(cmd) ==
    \E failAt \in 0..2 :
        /\ nops < MaxVariantSends
        /\ Call("send", cmd, send(cmd), failAt)
        /\ UNCHANGED <<display_rotation, buffer, build>>

\* every Command variant, sent more than once, on one driver
InitVariants ==
    /\ Init
    /\ display_rotation = "Rotate0"
    /\ build = [usize_bits |-> 32, overflow_checks |-> FALSE]

NextVariants ==
    \E i \in 1..Len(CommandSamples) : command_send_sample(CommandSamples[i])

SpecVariants == InitVariants /\ [][NextVariants]_vars

\* Properties::init_column_mode, called by GraphicsMode::init
init_column_mode ==
    \E failAt \in 0..24 :
        /\ nops < MaxOps
        /\ Call("init_column_mode", <<>>, init_column_mode_steps(display_rotation), failAt)
        /\ display_rotation' = display_rotation
        /\ UNCHANGED <<buffer, build>>

\* the driver built from Properties and GraphicsMode
NextProperties ==
    \/ init_column_mode

SpecProperties == Init /\ [][NextProperties]_vars

\* the accelerated drawing commands alone
NextAccel ==
    \/ \E p \in AccelCoords, raw \in AccelColours :
            command_send(Cmd("DrawLine", <<p[1], p[2], p[3], p[4], raw>>))
    \/ \E p \in AccelCoords, line \in AccelColours, fill \in AccelColours :
            command_send(Cmd("DrawRect", <<p[1], p[2], p[3], p[4], line, fill>>))

SpecAccel == Init /\ [][NextAccel]_vars

-----------------------------------------------------------------------------
(* Properties *)

\* the transport writes of a trace, in order
SpiWrites(tr) == SelectSeq(tr, LAMBDA e : e.kind = "spi")

\* the remap configuration byte the controller must hold for a rotation:
\* 0x60, 0x63, 0x72, 0x71
RemapOf(rot) ==
    CASE rot = "Rotate0" -> 96
      [] rot = "Rotate90" -> 99
      [] rot = "Rotate180" -> 114
      [] rot = "Rotate270" -> 113

\* C1: a successful init() makes exactly twelve transport writes, all of them
\* commands, whose first bytes are AE B3 A8 A1 A2 A0 81 3E BE A6 A4 AF in this
\* order: DisplayOn(false), DisplayClockDiv, Multiplex(63), StartLine(0),
\* DisplayOffset(0), the remap of the current rotation, Contrast,
\* PreChargePeriod, VcomhDeselect, AllOn(false), Invert(false), DisplayOn(true).
C1_InitSequence ==
    (op.name = "init" /\ result = "Ok") =>
        LET w == SpiWrites(trace) IN
        /\ Len(w) = 12
        /\ \A i \in 1..12 : w[i].src = "command" /\ w[i].ok
        /\ [i \in 1..12 |-> w[i].bytes[1]]
              = <<174, 179, 168, 161, 162, 160, 129, 62, 190, 166, 164, 175>>
        /\ w[1].bytes = <<174>>
        /\ Len(w[2].bytes) = 2
        /\ w[3].bytes = <<168, 63>>
        /\ w[4].bytes = <<161, 0>>
        /\ w[5].bytes = <<162, 0>>
        /\ w[6].bytes = <<160, RemapOf(display_rotation)>>
        /\ Len(w[7].bytes) = 6
        /\ Len(w[8].bytes) = 2
        /\ Len(w[9].bytes) = 2
        /\ w[10].bytes = <<166>>
        /\ w[11].bytes = <<164>>
        /\ w[12].bytes = <<175>>

\* C1 witness: init() succeeded right after new(spi, dc, Rotate270)
C1_Witness ==
    /\ op.name = "init" /\ result = "Ok" /\ nops = 1
    /\ display_rotation = "Rotate270"
    /\ Len(SpiWrites(trace)) = 12

\* C2: whenever flush() or flush_async() writes the frame buffer, the
\* transport writes it made before are exactly two, ColumnAddress(0, 95) then
\* RowAddress(0, 63), both successful and sent with DC low; and a successful
\* flush does write the frame buffer.  This holds whatever was called before.
C2_FlushResetsWindow ==
    (op.name \in {"flush", "flush_async"}) =>
        /\ \A i \in 1..Len(trace) :
              (trace[i].kind = "spi" /\ trace[i].src = "buffer") =>
                 LET before == SpiWrites(SubSeq(trace, 1, i - 1)) IN
                 /\ Len(before) = 2
                 /\ before[1].bytes = <<21, 0, 95>> /\ before[1].ok /\ before[1].dc = "low"
                 /\ before[2].bytes = <<117, 0, 63>> /\ before[2].ok /\ before[2].dc = "low"
        /\ result = "Ok" =>
              /\ \E i \in 1..Len(trace) : trace[i].kind = "spi" /\ trace[i].src = "buffer"
              /\ device.col = <<0, 95>> /\ device.row = <<0, 63>>

\* C2 witness: flush() succeeded after set_draw_area((10, 20), (30, 40)) had
\* programmed another window
C2_Witness ==
    /\ op.name = "flush" /\ result = "Ok"
    /\ prev.name = "set_draw_area" /\ prev.result = "Ok"
    /\ prev.args = << <<10, 20>>, <<30, 40>> >>
    /\ \E i \in 1..Len(trace) : trace[i].kind = "spi" /\ trace[i].src = "buffer"

\* the x and y arguments of the set_pixel call recorded in o
PixelX(o) == o.args[1]
PixelY(o) == o.args[2]
PixelValue(o) == o.args[3]

\* C3: set_pixel(x, y, v) with x >= the width dimensions() reports for the
\* current rotation leaves the buffer as it was.
C3_XOutOfBoundsNoop ==
    [][ (op'.name = "set_pixel"
           /\ GeConst(PixelX(op'), dimensions_of(display_rotation)[1]))
        => buffer' = buffer ]_vars

\* C4: set_pixel(x, y, v) with y >= the height dimensions() reports for the
\* current rotation leaves the buffer as it was and returns normally.
C4_YOutOfBoundsNoop ==
    [][ (op'.name = "set_pixel"
           /\ GeConst(PixelY(op'), dimensions_of(display_rotation)[2]))
        => (buffer' = buffer /\ result' = "Ok") ]_vars

\* C5: for x < width and y < height of the current rotation, set_pixel(x, y, v)
\* returns normally, writes v >> 8 at i and v & 0xFF at i + 1, with
\* i = (y * 96 + x) * 2 under Rotate0 / Rotate180 and i = (y * 64 + x) * 2 under
\* Rotate90 / Rotate270, and leaves every other byte as it was.
C5_InBoundsWrite ==
    [][ (op'.name = "set_pixel"
           /\ ~GeConst(PixelX(op'), dimensions_of(display_rotation)[1])
           /\ ~GeConst(PixelY(op'), dimensions_of(display_rotation)[2]))
        => LET x == PixelX(op')[2]
               y == PixelY(op')[2]
               v == PixelValue(op')
               i == IF display_rotation \in {"Rotate0", "Rotate180"}
                    THEN (y * 96 + x) * 2
                    ELSE (y * 64 + x) * 2
           IN  /\ result' = "Ok"
               /\ BufAt(buffer', i) = v \div 256
               /\ BufAt(buffer', i + 1) = v % 256
               /\ \A p \in buffer \cup buffer' :
                      p[1] \notin {i, i + 1} => (p \in buffer /\ p \in buffer') ]_vars

\* C5 witness: under Rotate90 the pixel (63, 95), the last slot of the buffer,
\* was written with 0x12AB while another pixel was already in the buffer
C5_Witness ==
    /\ op.name = "set_pixel" /\ result = "Ok"
    /\ display_rotation = "Rotate90"
    /\ op.args = << U32(63), U32(95), 4779 >>
    /\ BufAt(buffer, 12286) = 18 /\ BufAt(buffer, 12287) = 171
    /\ \E p \in buffer : p[1] < 12286

\* C6: a successful flush() ends with one transport write of the whole buffer
\* (12288 bytes, the buffer as it is when flush is called), made with DC high
\* right after dc.set_high() succeeded, and writes the buffer only once; a
\* pixel written by the set_pixel call before it is in the block as
\* (v >> 8, v & 0xFF) at the index set_pixel computed, so that after
\* set_pixel(0, 0, 0xF800) under Rotate0 the block starts with 0xF8, 0x00.
C6_FlushSendsBuffer ==
    (op.name = "flush" /\ result = "Ok") =>
        LET n == Len(trace)
            last == trace[n]
            p == pixel_index(display_rotation, PixelX(prev), PixelY(prev), build)
        IN  /\ n >= 2
            /\ last.kind = "spi" /\ last.src = "buffer" /\ last.ok
            /\ last.n = 12288 /\ last.block = buffer /\ last.dc = "high"
            /\ trace[n - 1].kind = "dc" /\ trace[n - 1].level = "high" /\ trace[n - 1].ok
            /\ \A i \in 1..(n - 1) : ~(trace[i].kind = "spi" /\ trace[i].src = "buffer")
            /\ (prev.name = "set_pixel" /\ p.kind = "write") =>
                  /\ BufAt(last.block, p.idx) = PixelValue(prev) \div 256
                  /\ BufAt(last.block, p.idx + 1) = PixelValue(prev) % 256
            /\ (prev.name = "set_pixel" /\ display_rotation = "Rotate0"
                  /\ prev.args = << U32(0), U32(0), 63488 >>) =>
                  /\ BufAt(last.block, 0) = 248
                  /\ BufAt(last.block, 1) = 0

\* C6 witness: flush() succeeded after set_pixel(0, 0, 0xF800) under Rotate0
C6_Witness ==
    /\ op.name = "flush" /\ result = "Ok"
    /\ display_rotation = "Rotate0"
    /\ prev.name = "set_pixel" /\ prev.args = << U32(0), U32(0), 63488 >>
    /\ BufAt(trace[Len(trace)].block, 0) = 248

\* C7: once a remap configuration has been written to the controller, the
\* stored rotation is the rotation of the configuration the controller holds.
C7_RotationMatchesDevice ==
    device.remap # -1 => device.remap = RemapOf(display_rotation)

\* the bytes of the transport writes of the last Command::send
SentBytes == [i \in 1..Len(SpiWrites(trace)) |-> SpiWrites(trace)[i].bytes]

\* the last call was Command::send of the variant tag
SentTag(tag) == op.name = "send" /\ op.args.tag = tag

\* C8 (as claimed): RemapAndColorDepth(false, false, CM65k, Horizontal) is
\* sent as A0 20 and RemapAndColorDepth(true, true, CM65k, Horizontal) as A0 32.
C8_RemapGoldenBytes ==
    (SentTag("RemapAndColorDepth") /\ result = "Ok") =>
        /\ op.args.args = <<FALSE, FALSE, "CM65k", "Horizontal">>
              => SentBytes = << <<160, 32>> >>
        /\ op.args.args = <<TRUE, TRUE, "CM65k", "Horizontal">>
              => SentBytes = << <<160, 50>> >>

\* C8 (amended): RemapAndColorDepth(false, false, CM65k, Horizontal) is sent
\* as A0 60 and RemapAndColorDepth(true, true, CM65k, Horizontal) as A0 72:
\* the colour mode CM65k sets bit 6.
C8_RemapGoldenBytesAmended ==
    (SentTag("RemapAndColorDepth") /\ result = "Ok") =>
        /\ op.args.args = <<FALSE, FALSE, "CM65k", "Horizontal">>
              => SentBytes = << <<160, 96>> >>
        /\ op.args.args = <<TRUE, TRUE, "CM65k", "Horizontal">>
              => SentBytes = << <<160, 114>> >>

\* C8 witness: RemapAndColorDepth(true, true, CM65k, Horizontal) was sent
C8_Witness ==
    /\ SentTag("RemapAndColorDepth") /\ result = "Ok"
    /\ op.args.args = <<TRUE, TRUE, "CM65k", "Horizontal">>
    /\ Len(SentBytes) = 1

\* C9: every RemapAndColorDepth is written as two bytes, 0xA0 and a
\* configuration byte with bit 1 = h_mirror, bit 4 = v_mirror, bit 6 = colour
\* mode (CM65k = 1), bit 0 = increment mode (Vertical = 1), bit 5 set and
\* bits 2, 3 and 7 clear.
C9_RemapBits ==
    SentTag("RemapAndColorDepth") =>
        /\ Len(SentBytes) <= 1
        /\ result = "Ok" => Len(SentBytes) = 1
        /\ \A i \in 1..Len(SentBytes) :
              LET b == SentBytes[i] IN
              /\ Len(b) = 2
              /\ b[1] = 160
              /\ b[2] \in 0..255
              /\ Bit(b[2], 1) = (IF op.args.args[1] THEN 1 ELSE 0)
              /\ Bit(b[2], 4) = (IF op.args.args[2] THEN 1 ELSE 0)
              /\ Bit(b[2], 6) = (IF op.args.args[3] = "CM65k" THEN 1 ELSE 0)
              /\ Bit(b[2], 0) = (IF op.args.args[4] = "Vertical" THEN 1 ELSE 0)
              /\ Bit(b[2], 5) = 1
              /\ Bit(b[2], 2) = 0 /\ Bit(b[2], 3) = 0 /\ Bit(b[2], 7) = 0

\* C9 witness: RemapAndColorDepth(true, false, CM256, Vertical) was sent as A0 23
C9_Witness ==
    /\ SentTag("RemapAndColorDepth") /\ result = "Ok"
    /\ op.args.args = <<TRUE, FALSE, "CM256", "Vertical">>
    /\ SentBytes = << <<160, 35>> >>

\* C10: DisplayClockDiv(osc, div) is written as B3, (osc mod 16) * 16 + (div mod 16)
\* and PreChargePeriod(p1, p2) as 3E, (p2 mod 16) * 16 + (p1 mod 16), for all
\* u8 arguments, and sending them fails only if the pin or the transport fails.
C10_NibblePacking ==
    /\ SentTag("DisplayClockDiv") =>
          /\ \A i \in 1..Len(SentBytes) :
                SentBytes[i] = << 179, ((op.args.args[1] % 16) * 16) + (op.args.args[2] % 16) >>
          /\ result = "Ok" => Len(SentBytes) = 1
    /\ SentTag("PreChargePeriod") =>
          /\ \A i \in 1..Len(SentBytes) :
                SentBytes[i] = << 62, ((op.args.args[2] % 16) * 16) + (op.args.args[1] % 16) >>
          /\ result = "Ok" => Len(SentBytes) = 1
    /\ (SentTag("DisplayClockDiv") \/ SentTag("PreChargePeriod")) =>
          (result # "Ok" => \E i \in 1..Len(trace) : ~trace[i].ok)

\* C10 witness: PreChargePeriod(0x5A, 0xA5), both arguments above 15, was sent as 3E 5A
C10_Witness ==
    /\ SentTag("PreChargePeriod") /\ result = "Ok"
    /\ op.args.args = <<90, 165>>
    /\ SentBytes = << <<62, 90>> >>

\* the red, green and blue bytes of a 16-bit colour in a drawing command:
\* (raw & 0xF800) >> 10, (raw & 0x07E0) >> 5, (raw & 0x001F) << 1
AccelR(raw) == (raw \div 2048) * 2
AccelG(raw) == (raw \div 32) % 64
AccelB(raw) == (raw % 32) * 2

\* C11: DrawLine(c1, r1, c2, r2, raw) is written as the 8 bytes
\* 21, c1, r1, c2, r2, R, G, B with R = (raw & 0xF800) >> 10,
\* G = (raw & 0x07E0) >> 5, B = (raw & 0x001F) << 1, each at most 63, and
\* DrawRect(c1, r1, c2, r2, line, fill) as the 11 bytes 22, c1, r1, c2, r2,
\* R, G, B of line, R, G, B of fill.
C11_AccelColourBytes ==
    /\ SentTag("DrawLine") =>
          LET a == op.args.args IN
          /\ \A i \in 1..Len(SentBytes) :
                /\ SentBytes[i] = <<33, a[1], a[2], a[3], a[4],
                                    AccelR(a[5]), AccelG(a[5]), AccelB(a[5])>>
                /\ \A k \in 6..8 : SentBytes[i][k] \in 0..63
          /\ result = "Ok" => Len(SentBytes) = 1
    /\ SentTag("DrawRect") =>
          LET a == op.args.args IN
          /\ \A i \in 1..Len(SentBytes) :
                /\ SentBytes[i] = <<34, a[1], a[2], a[3], a[4],
                                    AccelR(a[5]), AccelG(a[5]), AccelB(a[5]),
                                    AccelR(a[6]), AccelG(a[6]), AccelB(a[6])>>
                /\ \A k \in 6..11 : SentBytes[i][k] \in 0..63
          /\ result = "Ok" => Len(SentBytes) = 1

\* C11 witness: DrawRect(95, 63, 0, 255, 0x12AB, 0xF800) was sent as
\* 22 5F 3F 00 FF 04 15 16 3E 00 00
C11_Witness ==
    /\ SentTag("DrawRect") /\ result = "Ok"
    /\ op.args.args = <<95, 63, 0, 255, 4779, 63488>>
    /\ SentBytes = << <<34, 95, 63, 0, 255, 4, 21, 22, 62, 0, 0>> >>

\* the (width, height) claimed for a rotation
ClaimedDimensions(rot) ==
    CASE rot = "Rotate0" -> <<96, 64>>
      [] rot = "Rotate90" -> <<64, 96>>
      [] rot = "Rotate180" -> <<96, 64>>
      [] rot = "Rotate270" -> <<64, 96>>

\* C12: dimensions() is (96, 64) for Rotate0 and Rotate180 and (64, 96) for
\* Rotate90 and Rotate270, for the rotation given to new and, after every
\* set_rotation call, for the argument of that call; no other call changes it.
C12_Dimensions ==
    /\ op.name = "new" => dimensions = ClaimedDimensions(op.args[1])
    /\ [][ /\ op'.name = "set_rotation" => dimensions' = ClaimedDimensions(op'.args[1])
           /\ op'.name # "set_rotation" => dimensions' = dimensions ]_vars

\* C12 witness: set_rotation(Rotate0) then set_rotation(Rotate270): (64, 96)
C12_Witness ==
    /\ prev.name = "set_rotation" /\ prev.args = <<"Rotate0">>
    /\ op.name = "set_rotation" /\ op.args = <<"Rotate270">>
    /\ dimensions = <<64, 96>>

\* C13: clear() leaves every buffer byte 0 whatever the buffer held, makes no
\* pin or transport call and keeps the rotation, the DC level and what the
\* controller holds; a successful flush that follows it sends 12288 zero bytes.
C13_Clear ==
    /\ [][op'.name = "clear" =>
              /\ buffer' = {}
              /\ BufAt(buffer', 0) = 0 /\ BufAt(buffer', BUF_SIZE - 1) = 0
              /\ trace' = <<>>
              /\ result' = "Ok"
              /\ display_rotation' = display_rotation
              /\ dc' = dc
              /\ device' = device]_vars
    /\ []((prev.name = "clear" /\ op.name \in {"flush", "flush_async"} /\ result = "Ok") =>
              LET w == SpiWrites(trace) IN
              /\ w[Len(w)].src = "buffer"
              /\ w[Len(w)].n = BUF_SIZE
              /\ w[Len(w)].block = {}
              /\ w[Len(w)].dc = "high")

\* C13 witness: clear() after a set_pixel that wrote 0xF8 into the buffer
C13_Witness ==
    /\ prev.name = "set_pixel" /\ prev.result = "Ok"
    /\ PixelValue(prev) = 63488
    /\ op.name = "clear"
    /\ buffer = {}
    /\ trace = <<>>

\* the calls of a trace that returned an error
Failed(tr) == {i \in 1..Len(tr) : ~tr[i].ok}

\* C14: in init, flush, set_draw_area, set_rotation and reset the first pin or
\* transport failure is the last call the method makes and its error is the
\* result (Pin for a pin, Comm for the transport); the method returns Ok only
\* if no call failed.  When the k-th command of init fails, k transport
\* writes at most were attempted; when flush fails before its data block,
\* the block is not written.
C14_FirstFailureEnds ==
    op.name \in {"init", "flush", "set_draw_area", "set_rotation", "reset"} =>
        /\ Failed(trace) \subseteq {Len(trace)}
        /\ (result = "Ok") <=> (Failed(trace) = {})
        /\ \A i \in Failed(trace) :
              result = IF trace[i].kind \in {"dc", "rst"} THEN "Pin" ELSE "Comm"
        /\ (op.name = "init" /\ result # "Ok") =>
              \E k \in 1..12 :
                  /\ Len(trace) \in {2 * k - 1, 2 * k}
                  /\ Len(SpiWrites(trace)) <= k
                  /\ \A i \in 1..Len(SpiWrites(trace)) :
                        SpiWrites(trace)[i].ok <=> (i < k)
        /\ (op.name = "flush" /\ result # "Ok" /\ Len(trace) <= 5) =>
              \A i \in 1..Len(trace) : trace[i].src # "buffer"

\* C14 witness: init whose sixth command, the remap, fails on the transport:
\* five commands were written, the sixth attempt is the last call
C14_Witness ==
    /\ op.name = "init" /\ result = "Comm"
    /\ Len(trace) = 12
    /\ ~trace[12].ok /\ trace[12].bytes[1] = 160
    /\ \A i \in 1..11 : trace[i].ok

\* C15: Command::send first drives DC low; if that fails it returns
\* Error::Pin and makes no transport write; otherwise it makes one transport
\* write with DC low and returns Error::Comm if the write fails and Ok if it
\* succeeds.  No other result exists.
C15_SendDcThenWrite ==
    op.name = "send" =>
        /\ Len(trace) \in {1, 2}
        /\ trace[1].kind = "dc" /\ trace[1].level = "low"
        /\ ~trace[1].ok => (result = "Pin" /\ Len(trace) = 1 /\ SpiWrites(trace) = <<>>)
        /\ trace[1].ok =>
              /\ Len(trace) = 2
              /\ trace[2].kind = "spi" /\ trace[2].src = "command"
              /\ trace[2].dc = "low"
              /\ result = IF trace[2].ok THEN "Ok" ELSE "Comm"
        /\ result \in {"Ok", "Pin", "Comm"}

\* C15 witness: a send whose dc.set_low() failed: Error::Pin, nothing written
C15_Witness ==
    /\ op.name = "send" /\ result = "Pin"
    /\ Len(trace) = 1 /\ ~trace[1].ok
    /\ SpiWrites(trace) = <<>>

\* C16: a successful reset makes exactly five calls: rst high, a delay of at
\* least 1 ms, rst low, a delay of at least 1 ms, rst high.  It ends with the
\* reset line high, writes nothing to the transport and leaves the DC pin,
\* the controller registers, the buffer and the rotation as they were.
C16_ResetSequence ==
    /\ []((op.name \in {"reset", "graphics_mode_reset"} /\ result = "Ok") =>
              /\ Len(trace) = 5
              /\ [i \in 1..5 |-> trace[i].kind] = <<"rst", "delay", "rst", "delay", "rst">>
              /\ trace[1].level = "high" /\ trace[3].level = "low" /\ trace[5].level = "high"
              /\ trace[2].n >= 1 /\ trace[4].n >= 1
              /\ \A i \in 1..5 : trace[i].ok)
    /\ [][op'.name \in {"reset", "graphics_mode_reset"} =>
              /\ \A i \in 1..Len(trace') : trace'[i].kind \notin {"spi", "dc"}
              /\ dc' = dc
              /\ device' = device
              /\ buffer' = buffer
              /\ display_rotation' = display_rotation]_vars

\* C16 witness: a successful Ssd1331::reset after a successful init, with the
\* DC pin still low from the last command of init
C16_Witness ==
    /\ prev.name = "init" /\ prev.result = "Ok"
    /\ op.name = "reset" /\ result = "Ok"
    /\ Len(trace) = 5 /\ trace[5].kind = "rst" /\ trace[5].level = "high" /\ trace[5].ok
    /\ trace[2].n = 1 /\ trace[4].n = 1
    /\ dc = "low"

\* C17: init(), failed or not, leaves the buffer and the stored rotation as
\* they were, and an init() that succeeds directly after a failed init()
\* writes the complete sequence of twelve commands from DisplayOn(false) to
\* DisplayOn(true), with the remap of the stored rotation.
C17_InitRetry ==
    /\ [][op'.name = "init" =>
              (buffer' = buffer /\ display_rotation' = display_rotation)]_vars
    /\ []((prev.name = "init" /\ prev.result # "Ok" /\ op.name = "init" /\ result = "Ok") =>
              LET w == SpiWrites(trace) IN
              /\ Len(trace) = 24
              /\ Len(w) = 12
              /\ \A i \in 1..12 : w[i].ok /\ w[i].dc = "low"
              /\ [i \in 1..12 |-> w[i].bytes[1]]
                    = <<174, 179, 168, 161, 162, 160, 129, 62, 190, 166, 164, 175>>
              /\ w[6].bytes[2] = RemapOf(display_rotation)
              /\ device.remap = RemapOf(display_rotation))

\* C17 witness: init() that failed on the transport, then init() that succeeded
C17_Witness ==
    /\ prev.name = "init" /\ prev.result = "Comm"
    /\ op.name = "init" /\ result = "Ok"
    /\ Len(SpiWrites(trace)) = 12
    /\ display_rotation = "Rotate270"

\* the calls of a trace at which the method could suspend
Awaited(tr) == {i \in 1..Len(tr) : tr[i].awaited}

\* C18 (as claimed): flush_async can suspend at the bulk write of the
\* framebuffer only, its two draw-window commands complete without
\* suspending, and no other method suspends.
C18_SingleSuspensionPoint ==
    /\ op.name = "flush_async" =>
          /\ \A i \in Awaited(trace) : trace[i].src = "buffer"
          /\ result = "Ok" => Cardinality(Awaited(trace)) = 1
    /\ op.name # "flush_async" => Awaited(trace) = {}

\* C18 (amended): flush_async can suspend at three points, in this order: the
\* awaited send of ColumnAddress, the awaited send of RowAddress and the
\* awaited bulk write of the framebuffer; dc.set_high() between them is not
\* awaited, and no other method suspends.
C18_ThreeSuspensionPoints ==
    /\ op.name = "flush_async" =>
          /\ Awaited(trace) = {2, 4, 6} \cap (1..Len(trace))
          /\ \A i \in Awaited(trace) : trace[i].kind = "spi"
          /\ result = "Ok" =>
                /\ trace[2].bytes[1] = 21
                /\ trace[4].bytes[1] = 117
                /\ trace[6].src = "buffer"
    /\ op.name # "flush_async" => Awaited(trace) = {}

\* C18 witness: a successful flush_async: both window commands and the
\* bulk write were awaited
C18_Witness ==
    /\ op.name = "flush_async" /\ result = "Ok"
    /\ Len(trace) = 6
    /\ trace[2].awaited /\ trace[4].awaited /\ trace[6].awaited
    /\ trace[2].src = "command" /\ trace[6].src = "buffer"

\* the bytes of the first transport write of a trace (none: the empty sequence)
WrittenBytes(tr) == IF SpiWrites(tr) = <<>> THEN <<>> ELSE SpiWrites(tr)[1].bytes

\* two consecutive calls were Command::send of the same variant and both
\* reached the transport write
SameVariantTwice ==
    /\ op.name = "send" /\ op'.name = "send"
    /\ op.args.tag = op'.args.tag
    /\ SpiWrites(trace) # <<>> /\ SpiWrites(trace') # <<>>

\* wire length of every variant
WireLength ==
    [Contrast |-> 6, AllOn |-> 1, Invert |-> 1, DisplayOn |-> 1, ColumnAddress |-> 3,
     RowAddress |-> 3, StartLine |-> 2, RemapAndColorDepth |-> 2, Multiplex |-> 2,
     ReverseComDir |-> 1, DisplayOffset |-> 2, ComPinConfig |-> 2, DisplayClockDiv |-> 2,
     PreChargePeriod |-> 2, VcomhDeselect |-> 2, Noop |-> 1, DrawLine |-> 8,
     DrawRect |-> 11, EnableFill |-> 2]

\* what every send writes: at most one write, of the first len bytes of the
\* array and nothing else, len being the length of the variant
WritesLenBytes ==
    op.name = "send" =>
        /\ Len(SpiWrites(trace)) <= 1
        /\ \A i \in 1..Len(SpiWrites(trace)) :
              LET b == SpiWrites(trace)[i].bytes IN
              /\ Len(b) = WireLength[op.args.tag]
              /\ Len(b) \in 1..CMD_ARRAY_LEN
              /\ SpiWrites(trace)[i].n = Len(b)
              /\ Len(Encode(op.args).data) = CMD_ARRAY_LEN
              /\ \A k \in 1..Len(b) : b[k] = Encode(op.args).data[k]
              /\ \A k \in 1..Len(b) : b[k] \in 0..255

\* C19 (as claimed): every variant has one wire length between 1 and 11 and
\* one first byte, whatever the payload; the same value sent twice gives the
\* same bytes; only the first len bytes of the array are written.
C19_FixedLengthAndOpcode ==
    /\ []WritesLenBytes
    /\ [][SameVariantTwice =>
              /\ Len(WrittenBytes(trace')) = Len(WrittenBytes(trace))
              /\ WrittenBytes(trace')[1] = WrittenBytes(trace)[1]
              /\ op'.args = op.args => WrittenBytes(trace') = WrittenBytes(trace)]_vars

\* the variants whose single byte carries their boolean payload
PayloadInOpcode == {"AllOn", "Invert", "DisplayOn", "ReverseComDir"}

\* first byte of the variants of PayloadInOpcode, for the payload false and true
OpcodeOfBool ==
    [AllOn |-> <<166, 165>>, Invert |-> <<164, 167>>, DisplayOn |-> <<174, 175>>,
     ReverseComDir |-> <<192, 200>>]

\* first byte of every other variant
Opcode ==
    [Contrast |-> 129, ColumnAddress |-> 21, RowAddress |-> 117, StartLine |-> 161,
     RemapAndColorDepth |-> 160, Multiplex |-> 168, DisplayOffset |-> 162,
     ComPinConfig |-> 218, DisplayClockDiv |-> 179, PreChargePeriod |-> 62,
     VcomhDeselect |-> 190, Noop |-> 227, DrawLine |-> 33, DrawRect |-> 34,
     EnableFill |-> 38]

\* C19 (amended): every variant has one wire length between 1 and 11 whatever
\* the payload, and one first byte whatever the payload except AllOn (A6, A5),
\* Invert (A4, A7), DisplayOn (AE, AF) and ReverseComDir (C0, C8), whose only
\* byte is given by their boolean (false, true); the same value sent twice
\* gives the same bytes; only the first len bytes of the array are written.
C19_FixedLengthOpcodeUnlessBool ==
    /\ []WritesLenBytes
    /\ []((op.name = "send" /\ SpiWrites(trace) # <<>>) =>
              WrittenBytes(trace)[1] =
                  IF op.args.tag \in PayloadInOpcode
                  THEN OpcodeOfBool[op.args.tag][IF op.args.args[1] THEN 2 ELSE 1]
                  ELSE Opcode[op.args.tag])
    /\ [][SameVariantTwice =>
              /\ Len(WrittenBytes(trace')) = Len(WrittenBytes(trace))
              /\ op.args.tag \notin PayloadInOpcode =>
                    WrittenBytes(trace')[1] = WrittenBytes(trace)[1]
              /\ op'.args = op.args => WrittenBytes(trace') = WrittenBytes(trace)]_vars

\* C19 witness: DrawRect sent twice with different payloads: eleven bytes
\* both times, the whole array, starting with 22
C19_Witness ==
    /\ prev.name = "send" /\ prev.result = "Ok"
    /\ prev.args.tag = "DrawRect" /\ prev.args.args[1] = 1
    /\ SentTag("DrawRect") /\ result = "Ok"
    /\ op.args.args[1] = 95
    /\ Len(WrittenBytes(trace)) = 11 /\ WrittenBytes(trace)[1] = 34

\* (h_mirror, v_mirror, increment is Vertical) claimed for a rotation, as bits
ClaimedRemap(rot) ==
    CASE rot = "Rotate0"   -> <<0, 0, 0>>
      [] rot = "Rotate90"  -> <<1, 0, 1>>
      [] rot = "Rotate180" -> <<1, 1, 0>>
      [] rot = "Rotate270" -> <<0, 1, 1>>

\* C20: set_rotation(r) stores r and attempts one transport write at most, a
\* RemapAndColorDepth command (A0 and one byte) whose colour mode bit is
\* CM65k and whose h_mirror, v_mirror and increment bits are those claimed
\* for r; the increment is Vertical exactly when dimensions() is (64, 96);
\* when the call returns Ok the write was made, with DC low, and succeeded,
\* so that the controller holds the byte.
C20_SetRotation ==
    op.name = "set_rotation" =>
        LET r == op.args[1]
            w == SpiWrites(trace)
        IN  /\ display_rotation = r
            /\ Len(w) <= 1
            /\ \A i \in 1..Len(w) :
                  LET b == w[i].bytes IN
                  /\ Len(b) = 2 /\ b[1] = 160
                  /\ Bit(b[2], 6) = 1
                  /\ <<Bit(b[2], 1), Bit(b[2], 4), Bit(b[2], 0)>> = ClaimedRemap(r)
                  /\ (Bit(b[2], 0) = 1) <=> (dimensions = <<64, 96>>)
                  /\ w[i].dc = "low"
            /\ result = "Ok" =>
                  /\ Len(w) = 1 /\ w[1].ok
                  /\ device.remap = w[1].bytes[2]

\* C20 witness: a successful set_rotation(Rotate90) wrote A0 63
C20_Witness ==
    /\ op.name = "set_rotation" /\ op.args = <<"Rotate90">> /\ result = "Ok"
    /\ WrittenBytes(trace) = <<160, 99>>
    /\ device.remap = 99
    /\ display_rotation = "Rotate90"

\* C21: rotation() after a call of init, flush, flush_async, set_draw_area,
\* set_pixel, clear, reset, turn_on or turn_off is what it was before the
\* call, whatever the call returns; after set_rotation(r) it is r.
C21_RotationFrame ==
    [][ /\ op'.name \in {"init", "flush", "flush_async", "set_draw_area", "set_pixel",
                         "clear", "reset", "graphics_mode_reset", "turn_on", "turn_off"}
              => rotation' = rotation
        /\ op'.name = "set_rotation" => rotation' = op'.args[1] ]_vars

\* C21 witness: init failed on the transport after set_rotation(Rotate90) had
\* failed on the pin: rotation() is still Rotate90
C21_Witness ==
    /\ prev.name = "set_rotation" /\ prev.args = <<"Rotate90">> /\ prev.result = "Pin"
    /\ op.name = "init" /\ result = "Comm"
    /\ rotation = "Rotate90"

\* C22: new leaves a buffer of 96 * 64 * 2 = 12288 zero bytes, for every
\* rotation, and has touched neither the pins nor the transport; after any
\* calls the buffer still has exactly the bytes 0 .. 12287, each one u8.
C22_BufferShape ==
    /\ BUF_SIZE = 96 * 64 * 2 /\ BUF_SIZE = 12288
    /\ op.name = "new" =>
          /\ buffer = {}
          /\ op.args[1] = display_rotation
          /\ trace = <<>> /\ dc = "unset"
          /\ device = [remap |-> -1, col |-> <<-1, -1>>, row |-> <<-1, -1>>]
    /\ \A p \in buffer : p[1] \in 0..(BUF_SIZE - 1) /\ p[2] \in 1..255
    /\ \A p \in buffer : \A q \in buffer : p[1] = q[1] => p = q

\* C22 witness: the last byte of the buffer, 12287, was written and the
\* buffer holds nothing beyond it
C22_Witness ==
    /\ op.name = "set_pixel" /\ result = "Ok"
    /\ BufAt(buffer, BUF_SIZE - 1) = 171
    /\ \A p \in buffer : p[1] < BUF_SIZE

\* C23: a successful init_column_mode writes its twelve commands with the
\* first bytes AE B3 A8 A1 A2 A0 81 3E BE A6 A4 AF, the order of
\* Ssd1331::init: display off, clock divider, multiplex ratio, start line,
\* display offset, remap, contrast, pre-charge, VCOMH deselect, all-on(false),
\* invert(false), display on.
C23_InitColumnModeOrder ==
    (op.name = "init_column_mode" /\ result = "Ok") =>
        LET w == SpiWrites(trace) IN
        /\ Len(w) = 12
        /\ [i \in 1..12 |-> w[i].bytes[1]]
              = <<174, 179, 168, 161, 162, 160, 129, 62, 190, 166, 164, 175>>
        /\ [i \in 1..12 |-> w[i].bytes[1]]
              = [i \in 1..12 |-> SpiWrites(Exec(init_steps(display_rotation), 0, 1, "low"))[i].bytes[1]]

\* C24: set_draw_area((c0, r0), (c1, r1)) writes 15 c0 c1 and then 75 r0 r1,
\* the values as given, each with DC low; the row command is written only
\* after the column command succeeded; nothing else is written and the
\* buffer is left as it was.
C24_SetDrawArea ==
    /\ [](op.name = "set_draw_area" =>
              LET start == op.args[1]
                  end == op.args[2]
                  w == SpiWrites(trace)
              IN  /\ Len(w) <= 2
                  /\ \A i \in 1..Len(w) : w[i].src = "command" /\ w[i].dc = "low"
                  /\ Len(w) >= 1 => w[1].bytes = <<21, start[1], end[1]>>
                  /\ Len(w) = 2 => (w[1].ok /\ w[2].bytes = <<117, start[2], end[2]>>)
                  /\ result = "Ok" =>
                        /\ Len(w) = 2 /\ w[2].ok
                        /\ device.col = <<start[1], end[1]>>
                        /\ device.row = <<start[2], end[2]>>)
    /\ [][op'.name = "set_draw_area" => buffer' = buffer]_vars

\* C24 witness: set_draw_area((200, 255), (5, 0)), a window no display has,
\* was written as given while the buffer held a pixel
C24_Witness ==
    /\ op.name = "set_draw_area" /\ result = "Ok"
    /\ op.args = << <<200, 255>>, <<5, 0>> >>
    /\ Len(SpiWrites(trace)) = 2
    /\ SpiWrites(trace)[1].bytes = <<21, 200, 5>>
    /\ SpiWrites(trace)[2].bytes = <<117, 255, 0>>
    /\ buffer # {}

\* the last successful set_low / set_high of a trace before its call i (0: none)
LastDcSet(tr, i) ==
    LET sets == {j \in 1..(i - 1) : tr[j].kind = "dc" /\ tr[j].ok}
    IN  IF sets = {} THEN 0 ELSE CHOOSE j \in sets : \A k \in sets : k <= j

\* C25: in every method, every transport write of command bytes is made with
\* DC low and every transport write of the buffer with DC high, and that
\* level was set by the last successful set_low / set_high the same method
\* made before the write.
C25_DcLevelAtWrite ==
    \A i \in 1..Len(trace) :
        trace[i].kind = "spi" =>
            LET want == IF trace[i].src = "command" THEN "low" ELSE "high"
                j == LastDcSet(trace, i)
            IN  /\ trace[i].src \in {"command", "buffer"}
                /\ trace[i].dc = want
                /\ j # 0
                /\ trace[j].level = want

\* C25 witness: a flush right after a successful init, whose last command
\* left DC low: its window commands were written with DC low and its buffer
\* with DC high
C25_Witness ==
    /\ prev.name = "init" /\ prev.result = "Ok"
    /\ op.name = "flush" /\ result = "Ok"
    /\ trace[1].dc = "low"
    /\ trace[2].src = "command" /\ trace[2].dc = "low"
    /\ trace[4].src = "command" /\ trace[4].dc = "low"
    /\ trace[6].src = "buffer" /\ trace[6].dc = "high"

\* set_pixel on every in-bounds coordinate of a rotation, on every target
InBoundsIndexes(rot, bld) ==
    { pixel_index(rot, U32(x), U32(y), bld) :
          x \in 0..(dimensions_of(rot)[1] - 1), y \in 0..(dimensions_of(rot)[2] - 1) }

\* the in-bounds coordinates of every rotation are all written, at 6144
\* different even indexes from 0 to 12286
AllInBoundsOneToOne ==
    \A rot \in Rotations : \A bld \in Builds :
        /\ \A p \in InBoundsIndexes(rot, bld) :
              p.kind = "write" /\ p.idx \in 0..12286 /\ p.idx % 2 = 0
        /\ Cardinality({p.idx : p \in InBoundsIndexes(rot, bld)}) = 6144
        /\ [kind |-> "write", idx |-> 12286] \in InBoundsIndexes(rot, bld)

\* the call o was set_pixel of a coordinate inside dimensions()
InBoundsPixel(o) ==
    /\ o.name = "set_pixel"
    /\ PixelX(o)[1] = 0 /\ PixelX(o)[2] < dimensions[1]
    /\ PixelY(o)[1] = 0 /\ PixelY(o)[2] < dimensions[2]

\* the slot of an in-bounds pixel: (y * w + x) * 2 with (w, h) = dimensions()
SlotOf(o) == (PixelY(o)[2] * dimensions[1] + PixelX(o)[2]) * 2

\* C26: for every rotation the in-bounds coordinates are written one-to-one
\* onto the 6144 two-byte slots of the buffer, the last one at 12286
\* included; an in-bounds set_pixel is never dropped, and after two in-bounds
\* set_pixel calls on different coordinates the buffer holds both pixels.
C26_OneToOne ==
    /\ AllInBoundsOneToOne
    /\ InBoundsPixel(op) =>
          /\ result = "Ok"
          /\ SlotOf(op) \in 0..(BUF_SIZE - 2)
          /\ BufAt(buffer, SlotOf(op)) = PixelValue(op) \div 256
          /\ BufAt(buffer, SlotOf(op) + 1) = PixelValue(op) % 256
    /\ (InBoundsPixel(prev) /\ InBoundsPixel(op)
          /\ <<PixelX(prev), PixelY(prev)>> # <<PixelX(op), PixelY(op)>>) =>
          /\ SlotOf(prev) # SlotOf(op)
          /\ BufAt(buffer, SlotOf(prev)) = PixelValue(prev) \div 256
          /\ BufAt(buffer, SlotOf(prev) + 1) = PixelValue(prev) % 256

\* C26 witness: under Rotate180 the last pixel (95, 63) was written at 12286
\* after the pixel (0, 63), and both are in the buffer
C26_Witness ==
    /\ display_rotation = "Rotate180"
    /\ prev.name = "set_pixel" /\ prev.args = << U32(0), U32(63), 4779 >>
    /\ op.name = "set_pixel" /\ op.args = << U32(95), U32(63), 63488 >>
    /\ BufAt(buffer, 12286) = 248
    /\ BufAt(buffer, 12096) = 18 /\ BufAt(buffer, 12097) = 171

\* C27: on every target set_pixel computes the index (y * 96 + x) * 2 or
\* (y * 64 + x) * 2 as on a usize wide enough for the mathematical value: it
\* does not panic and it writes exactly where, and only if, the unwrapped
\* index lies inside the buffer.
C27_IndexDoesNotWrap ==
    op.name = "set_pixel" =>
        /\ result = "Ok"
        /\ pixel_index(display_rotation, PixelX(op), PixelY(op), build)
              = pixel_index(display_rotation, PixelX(op), PixelY(op),
                            [usize_bits |-> 64, overflow_checks |-> FALSE])

\* C28: draw_iter changes the buffer only for the pixels inside the box
\* (0, 0)..(w-1, h-1) of dimensions(): a pixel with a negative coordinate or
\* with x >= w or y >= h leaves the buffer as it was, every other pixel is
\* stored at 2 * (y * w + x), high byte first, the last pixel of a position
\* deciding its value, and draw_iter returns Ok.
DrawnInside(px) ==
    /\ px[1] >= 0 /\ px[1] < dimensions[1]
    /\ px[2] >= 0 /\ px[2] < dimensions[2]

DrawnSlot(px) == 2 * (px[2] * dimensions[1] + px[1])

C28_DrawIterClips ==
    [][op'.name = "draw_iter" =>
        LET pixels == op'.args[1]
            inside == {k \in 1..Len(pixels) : DrawnInside(pixels[k])}
            slots == {DrawnSlot(pixels[k]) : k \in inside}
            last(sl) == CHOOSE k \in inside :
                           /\ DrawnSlot(pixels[k]) = sl
                           /\ \A j \in inside : DrawnSlot(pixels[j]) = sl => j <= k
        IN  /\ result' = "Ok"
            /\ \A sl \in slots :
                   /\ BufAt(buffer', sl) = pixels[last(sl)][3] \div 256
                   /\ BufAt(buffer', sl + 1) = pixels[last(sl)][3] % 256
            /\ \A i \in {e[1] : e \in buffer \cup buffer'} :
                   (i \notin slots /\ i - 1 \notin slots) => BufAt(buffer', i) = BufAt(buffer, i)
            /\ display_rotation' = display_rotation]_vars

C28_Witness ==
    /\ display_rotation = "Rotate90"
    /\ prev.name = "draw_iter" /\ prev.args = << << <<0, 0, 63488>>, <<0, 0, 4779>> >> >>
    /\ op.name = "draw_iter" /\ op.args = << << <<64, 0, 4779>>, <<-1, 0, 63488>> >> >>
    /\ result = "Ok"
    /\ buffer = {<<0, 18>>, <<1, 171>>}

\* C29: init, flush, flush_async, set_draw_area, set_rotation, reset, turn_on
\* and turn_off leave the buffer as it was, whatever they return; init makes
\* no transport write of the buffer and never sets DC high; and a successful
\* flush that follows a successful flush makes the same transport writes.
BufferKeepers == {"init", "flush", "flush_async", "set_draw_area", "set_rotation",
                  "reset", "turn_on", "turn_off"}

C29_BufferFrame ==
    [][/\ op'.name \in BufferKeepers => buffer' = buffer
       /\ op'.name = "init" =>
              \A i \in 1..Len(trace') :
                 /\ ~(trace'[i].kind = "dc" /\ trace'[i].level = "high")
                 /\ trace'[i].src # "buffer"
       /\ (op.name = "flush" /\ result = "Ok" /\ op'.name = "flush" /\ result' = "Ok") =>
              /\ SpiWrites(trace') = SpiWrites(trace)
              /\ Len(SpiWrites(trace')) = 3]_vars

C29_Witness ==
    /\ prev.name = "set_pixel" /\ prev.result = "Ok"
    /\ op.name = "flush" /\ result = "Comm"
    /\ buffer # {}
    /\ Len(trace) = 6 /\ trace[6].src = "buffer" /\ ~trace[6].ok

\* C30: with a transport and a pin that do not fail, flush_async and flush,
\* started in the same state, make the same pin and transport calls in the
\* same order: DC low, [0x15, 0, 95], DC low, [0x75, 0, 63], DC high, the
\* 12288 bytes of the buffer; and they leave the same DC level, the same
\* window in the controller, and the buffer and the rotation as they were.
OnWire(tr) ==
    [i \in 1..Len(tr) |->
        [kind |-> tr[i].kind, level |-> tr[i].level, src |-> tr[i].src,
         bytes |-> tr[i].bytes, block |-> tr[i].block, n |-> tr[i].n, dc |-> tr[i].dc]]

FlushWire(tr) ==
    /\ Len(tr) = 6
    /\ \A i \in 1..6 : tr[i].ok
    /\ tr[1].kind = "dc" /\ tr[1].level = "low"
    /\ tr[2].kind = "spi" /\ tr[2].bytes = <<21, 0, 95>> /\ tr[2].dc = "low"
    /\ tr[3].kind = "dc" /\ tr[3].level = "low"
    /\ tr[4].kind = "spi" /\ tr[4].bytes = <<117, 0, 63>> /\ tr[4].dc = "low"
    /\ tr[5].kind = "dc" /\ tr[5].level = "high"
    /\ tr[6].kind = "spi" /\ tr[6].src = "buffer" /\ tr[6].n = 12288
    /\ tr[6].block = buffer /\ tr[6].dc = "high"

C30_FlushAsyncEqualsFlush ==
    LET sync == Exec(flush_steps(buffer), 0, 1, dc)
        async == Exec(flush_async_steps(buffer), 0, 1, dc)
    IN  /\ OnWire(async) = OnWire(sync)
        /\ FlushWire(sync) /\ FlushWire(async)
        /\ DcAfter(async, dc) = DcAfter(sync, dc)
        /\ DeviceAfter(device, async) = DeviceAfter(device, sync)
        /\ (op.name \in {"flush", "flush_async"} /\ result = "Ok") =>
               /\ FlushWire(trace)
               /\ dc = "high"
               /\ device.col = <<0, 95>> /\ device.row = <<0, 63>>

C30_Witness ==
    /\ prev.name = "set_pixel" /\ prev.result = "Ok"
    /\ op.name = "flush_async" /\ result = "Ok"
    /\ buffer # {}
    /\ OnWire(trace) = OnWire(Exec(flush_steps(buffer), 0, 1, "unset"))

=============================================================================
